---- MODULE Spec2Model ----
(***************************************************************************)
(* A model of the PLY decoder of reader.go: the header grammar, the value  *)
(* codec, the binary and ASCII body passes over a bufio.Reader, and the    *)
(* vertex accessor.  Text is modelled as it is stored: a file is a         *)
(* sequence of bytes, a string is a sequence of ASCII codes.               *)
(***************************************************************************)
EXTENDS Integers, Sequences, FiniteSets, TLC

\* ------------------------------------------------------------------ bytes
Min(S) == CHOOSE m \in S : \A n \in S : m <= n
Max(S) == CHOOSE m \in S : \A n \in S : m >= n

NL == <<10>>                        \* "\n", the delimiter of readLine
SP == <<32>>                        \* " "

IsSpace(c) == c \in {9, 10, 11, 12, 13, 32}
IsDigit(c) == c \in 48..57          \* [0-9], \d
IsDot(c)   == c = 46                \* \.
IsSign(c)  == c \in {43, 45}        \* [\+\-]
IsWord(c)  == c \in (48..57) \cup (65..90) \cup (97..122) \cup {95}   \* \w

s_ply == <<112, 108, 121>>                  \* "ply"
s_format == <<102, 111, 114, 109, 97, 116>> \* "format"
s_ascii == <<97, 115, 99, 105, 105>>        \* "ascii"
s_binary_big_endian == <<98, 105, 110, 97, 114, 121, 95, 98, 105, 103, 95, 101, 110, 100, 105, 97, 110>>
s_binary_little_endian == <<98, 105, 110, 97, 114, 121, 95, 108, 105, 116, 116, 108, 101, 95, 101, 110, 100, 105, 97, 110>>
s_comment == <<99, 111, 109, 109, 101, 110, 116>>           \* "comment"
s_element == <<101, 108, 101, 109, 101, 110, 116>>          \* "element"
s_property == <<112, 114, 111, 112, 101, 114, 116, 121>>    \* "property"
s_list == <<108, 105, 115, 116>>                            \* "list"
s_obj_info == <<111, 98, 106, 95, 105, 110, 102, 111>>      \* "obj_info"
s_end_header == <<101, 110, 100, 95, 104, 101, 97, 100, 101, 114>>  \* "end_header"
s_invalid == <<105, 110, 118, 97, 108, 105, 100>>  \* "invalid"
s_int8 == <<105, 110, 116, 56>>                    \* "int8"
s_int16 == <<105, 110, 116, 49, 54>>               \* "int16"
s_int32 == <<105, 110, 116, 51, 50>>               \* "int32"
s_uint8 == <<117, 105, 110, 116, 56>>              \* "uint8"
s_uint16 == <<117, 105, 110, 116, 49, 54>>         \* "uint16"
s_uint32 == <<117, 105, 110, 116, 51, 50>>         \* "uint32"
s_float32 == <<102, 108, 111, 97, 116, 51, 50>>    \* "float32"
s_float64 == <<102, 108, 111, 97, 116, 54, 52>>    \* "float64"
s_char == <<99, 104, 97, 114>>                     \* "char"
s_short == <<115, 104, 111, 114, 116>>             \* "short"
s_int == <<105, 110, 116>>                         \* "int"
s_uchar == <<117, 99, 104, 97, 114>>               \* "uchar"
s_ushort == <<117, 115, 104, 111, 114, 116>>       \* "ushort"
s_uint == <<117, 105, 110, 116>>                   \* "uint"
s_float == <<102, 108, 111, 97, 116>>              \* "float"
s_double == <<100, 111, 117, 98, 108, 101>>        \* "double"
s_vertex == <<118, 101, 114, 116, 101, 120>>       \* "vertex"
s_face == <<102, 97, 99, 101>>                     \* "face"
s_x == <<120>>                                     \* "x"
s_y == <<121>>                                     \* "y"
s_z == <<122>>                                     \* "z"
s_nx == <<110, 120>>                               \* "nx"
s_ny == <<110, 121>>                               \* "ny"
s_nz == <<110, 122>>                               \* "nz"
s_1_0 == <<49, 46, 48>>                            \* "1.0"
s_made == <<109, 97, 100, 101>>                    \* "made"
s_by == <<98, 121>>                                \* "by"
s_plx == <<112, 108, 120>>                         \* "plx"

\* ---------------------------------------------------------- type registry
Properties == <<s_x, s_y, s_z, s_nx, s_ny, s_nz>>

Types == <<s_invalid, s_int8, s_int16, s_int32, s_uint8, s_uint16, s_uint32, s_float32, s_float64>>
OldTypes == <<s_invalid, s_char, s_short, s_int, s_uchar, s_ushort, s_uint, s_float, s_double>>

\* Types[k] and OldTypes[k] of the source are Types[k + 1] and OldTypes[k + 1]
\* here; TypeIndex is the source's k, 0 for a name no case of the switch takes.
TypeIndex(typeName) ==
    IF \E k \in 1..8 : typeName = Types[k + 1] \/ typeName = OldTypes[k + 1]
    THEN Min({k \in 1..8 : typeName = Types[k + 1] \/ typeName = OldTypes[k + 1]})
    ELSE 0

\* the widths of the types of index 0 (none) to 8, as SizeOfType gives them
WidthOfIndex == [k \in 0..8 |-> <<0, 1, 2, 4, 1, 2, 4, 4, 8>>[k + 1]]

\* SizeOfType[typeName]; a missing key of a Go map reads as 0.
SizeOfType(typeName) == WidthOfIndex[TypeIndex(typeName)]

\* ------------------------------------------------------------- strings
\* strings.TrimSpace
strip(s) ==
    IF \A i \in 1..Len(s) : IsSpace(s[i]) THEN <<>>
    ELSE SubSeq(s, Min({i \in 1..Len(s) : ~IsSpace(s[i])}),
                   Max({i \in 1..Len(s) : ~IsSpace(s[i])}))

\* The number of consecutive bytes of s from position i on that are digits,
\* dots, signs, word characters.
DigitRun(s, i) ==
    IF i > Len(s) THEN 0
    ELSE Min({j \in i..(Len(s) + 1) : j > Len(s) \/ ~IsDigit(s[j])}) - i

DotRun(s, i) ==
    IF i > Len(s) THEN 0
    ELSE Min({j \in i..(Len(s) + 1) : j > Len(s) \/ ~IsDot(s[j])}) - i

SignRun(s, i) ==
    IF i > Len(s) THEN 0
    ELSE Min({j \in i..(Len(s) + 1) : j > Len(s) \/ ~IsSign(s[j])}) - i

WordRun(s, i) ==
    IF i > Len(s) THEN 0
    ELSE Min({j \in i..(Len(s) + 1) : j > Len(s) \/ ~IsWord(s[j])}) - i

\* The length of the leftmost-first match of ([0-9]+)*\.*[0-9]+ starting at
\* position i, 0 when it does not match there: d1 digits, then k dots and
\* the d2 digits after them when there is at least one such digit;
\* otherwise the engine backtracks to the leading digits alone.
NumTail(d1, k, d2) == IF k > 0 /\ d2 > 0 THEN d1 + k + d2 ELSE d1
NumDots(s, i, d1, k) == NumTail(d1, k, DigitRun(s, i + d1 + k))
NumDigits(s, i, d1) == NumDots(s, i, d1, DotRun(s, i + d1))
NumBody(s, i) == NumDigits(s, i, DigitRun(s, i))

\* an alternation: the first alternative wins where it matches
FirstOr(n, m) == IF n > 0 THEN n ELSE m

\* regexp "((\d+)*\.*\d+)|\w+": the length of its match at position i
wordMatchAt(s, i) == FirstOr(NumBody(s, i), WordRun(s, i))

\* regexp "[\+\-]*([0-9]*)+\.*[0-9]+": the length of its match at position i
WithSigns(sg, n) == IF n > 0 THEN sg + n ELSE 0
AfterSigns(s, i, sg) == WithSigns(sg, NumBody(s, i + sg))
numMatchAt(s, i) == AfterSigns(s, i, SignRun(s, i))

\* FindAllStringSubmatch(line, -1), each match reduced to its element [0]:
\* the successive non-overlapping leftmost matches.  An empty result is the
\* source's nil.
RECURSIVE wordMatcherFrom(_, _)
wordMatcherTake(s, i, n) ==
    IF n > 0 THEN <<SubSeq(s, i, i + n - 1)>> \o wordMatcherFrom(s, i + n)
    ELSE wordMatcherFrom(s, i + 1)

wordMatcherFrom(s, i) ==
    IF i > Len(s) THEN <<>> ELSE wordMatcherTake(s, i, wordMatchAt(s, i))

wordMatcher(line) == wordMatcherFrom(line, 1)

RECURSIVE numMatcherFrom(_, _)
numMatcherTake(s, i, n) ==
    IF n > 0 THEN <<SubSeq(s, i, i + n - 1)>> \o numMatcherFrom(s, i + n)
    ELSE numMatcherFrom(s, i + 1)

numMatcherFrom(s, i) ==
    IF i > Len(s) THEN <<>> ELSE numMatcherTake(s, i, numMatchAt(s, i))

numMatcher(line) == numMatcherFrom(line, 1)

\* ------------------------------------------------------------- strconv
nil == [kind |-> "nil", file |-> "", line |-> 0]
Err(kind) == [kind |-> kind, file |-> "", line |-> 0]
EOF == Err("EOF")
ErrUnexpectedEOF == Err("unexpected EOF")

\* The value of a string of digits in the given base, -1 when a byte of it
\* is no digit of that base.  Numerals here have at most 9 digits.
RECURSIVE DigitsVal(_, _)
DigitCons(rest, d, base) ==
    IF d < 0 \/ d >= base \/ rest < 0 THEN -1 ELSE rest * base + d

DigitsVal(s, base) ==
    IF s = <<>> THEN 0
    ELSE DigitCons(DigitsVal(SubSeq(s, 1, Len(s) - 1), base), s[Len(s)] - 48, base)

\* base 0 reads a leading "0" as the octal prefix
UintDigits(s, base) ==
    IF base = 0 /\ s # <<>> /\ s[1] = 48 THEN DigitsVal(Tail(s), 8) ELSE DigitsVal(s, 10)

UintOf(s, v, bitSize) ==
    IF s = <<>> \/ v < 0 THEN [ok |-> FALSE, n |-> 0, e |-> Err("syntax")]
    ELSE IF bitSize < 32 /\ v >= 2 ^ bitSize THEN [ok |-> FALSE, n |-> 0, e |-> Err("range")]
    ELSE [ok |-> TRUE, n |-> v, e |-> nil]

\* strconv.ParseUint(s, base, bitSize) for base 0 and 10 on the strings the
\* two regexps can produce (signs, digits, dots)
ParseUint(s, base, bitSize) == UintOf(s, UintDigits(s, base), bitSize)

Unsigned(s) == IF s # <<>> /\ IsSign(s[1]) THEN Tail(s) ELSE s
IsNeg(s) == s # <<>> /\ s[1] = 45

IntOf(neg, u, bitSize) ==
    IF ~u.ok THEN u
    ELSE IF bitSize < 32 /\ ((~neg /\ u.n >= 2 ^ (bitSize - 1)) \/ (neg /\ u.n > 2 ^ (bitSize - 1)))
    THEN [ok |-> FALSE, n |-> 0, e |-> Err("range")]
    ELSE [ok |-> TRUE, n |-> IF neg THEN 0 - u.n ELSE u.n, e |-> nil]

\* strconv.ParseInt(s, base, bitSize): one optional sign, then ParseUint, then
\* the range of the signed type.
ParseInt(s, base, bitSize) == IntOf(IsNeg(s), ParseUint(Unsigned(s), base, 32), bitSize)

\* strconv.ParseFloat on the same strings: one optional sign, digits with at
\* most one dot, at least one digit.  The value is kept as a sign and a
\* magnitude in half units (h = 2 * |value|): exact for the numerals the
\* bodies below hold (fraction 0 or 5), the nearest half below otherwise.
FloatOf(neg, t, ip, fp, iv, fv) ==
    IF Cardinality({i \in 1..Len(t) : IsDot(t[i])}) > 1 \/ iv < 0 \/ fv < 0
       \/ (ip = <<>> /\ fp = <<>>)
    THEN [ok |-> FALSE, neg |-> FALSE, h |-> 0, e |-> Err("syntax")]
    ELSE [ok |-> TRUE, neg |-> neg,
          h |-> 2 * iv + (IF fp # <<>> /\ fp[1] >= 53 THEN 1 ELSE 0), e |-> nil]

FloatParts(neg, t, ip, fp) == FloatOf(neg, t, ip, fp, DigitsVal(ip, 10), DigitsVal(fp, 10))

FloatSplit(neg, t, dot) == FloatParts(neg, t, SubSeq(t, 1, dot - 1), SubSeq(t, dot + 1, Len(t)))

FloatText(neg, t) ==
    FloatSplit(neg, t, Min({i \in 1..(Len(t) + 1) : i > Len(t) \/ IsDot(t[i])}))

ParseFloat(s, bitSize) == FloatText(IsNeg(s), Unsigned(s))

\* ------------------------------------------------------ encoding/binary
Zeros(n) == [i \in 1..n |-> 0]      \* make([]byte, n)

\* binary.Write(buf, binary.LittleEndian, &t) of a w-byte integer t: the
\* two's complement of t, least significant byte first.
LEInt(t, w) == [i \in 1..w |-> (t \div (256 ^ (i - 1))) % 256]

Log2(h) == Max({q \in 0..30 : 2 ^ q <= h})

\* the bytes of a single of the given sign, exponent field and mantissa
Float32Bytes(neg, ex, mant) ==
    <<mant % 256, (mant \div 256) % 256, (ex % 2) * 128 + (mant \div 65536),
      (IF neg THEN 128 ELSE 0) + (ex \div 2)>>

Float32Of(neg, h, q) == Float32Bytes(neg, 126 + q, (h - 2 ^ q) * 2 ^ (23 - q))

\* The little-endian IEEE-754 single of the value (neg, h / 2).
LEFloat32(neg, h) ==
    IF h = 0 THEN Float32Bytes(neg, 0, 0) ELSE Float32Of(neg, h, Log2(h))

\* the bytes of a double of the given sign, exponent field and the upper
\* 20 bits of its mantissa, the lower 32 being 0
Float64Bytes(neg, ex, top) ==
    <<0, 0, 0, 0, top % 256, (top \div 256) % 256, (ex % 16) * 16 + (top \div 65536),
      (IF neg THEN 128 ELSE 0) + (ex \div 16)>>

Float64Of(neg, h, q) == Float64Bytes(neg, 1022 + q, (h - 2 ^ q) * 2 ^ (20 - q))

\* The little-endian IEEE-754 double of the value (neg, h / 2).
LEFloat64(neg, h) ==
    IF h = 0 THEN Float64Bytes(neg, 0, 0) ELSE Float64Of(neg, h, Log2(h))

\* strconv.ParseInt / ParseUint / ParseFloat as the case of index k calls it
ParseAs(k, data, bitSize) ==
    IF k \in 1..3 THEN ParseInt(data, 0, bitSize)
    ELSE IF k \in 4..6 THEN ParseUint(data, 0, bitSize)
    ELSE ParseFloat(data, bitSize)

\* what binary.Write(buf, binary.LittleEndian, &t) writes for the parsed t
Written(k, w, parsed) ==
    IF k \in 1..6 THEN LEInt(parsed.n, w)
    ELSE IF k = 7 THEN LEFloat32(parsed.neg, parsed.h)
    ELSE LEFloat64(parsed.neg, parsed.h)

\* b := make([]byte, w); buf := bytes.NewBuffer(b); binary.Write(buf, ..., &t):
\* NewBuffer takes b as the buffer's initial CONTENTS, so the write appends
\* after them (in a grown copy, since cap(b) = len(b)); b itself stays as
\* make left it.
NewBufferWrite(b, enc) == [b |-> b, buf |-> b \o enc]

toTypeParsed(k, w, parsed) ==
    IF ~parsed.ok THEN [b |-> <<>>, e |-> parsed.e]
    ELSE [b |-> NewBufferWrite(Zeros(w), Written(k, w, parsed)).b, e |-> nil]

toTypeIndex(data, k) ==
    IF k = 0 THEN [b |-> <<>>, e |-> nil]
    ELSE toTypeParsed(k, WidthOfIndex[k], ParseAs(k, data, 8 * WidthOfIndex[k]))

\* toType(data, typeName): the slice b it returns and the error
toType(data, typeName) == toTypeIndex(data, TypeIndex(typeName))

\* appendBytes(slice, data).  The slices it is given have cap = len or come
\* from an earlier call, so the result's contents are slice followed by data.
appendBytes(slice, data) == slice \o data

\* ---------------------------------------------------------------- bufio
BufSize == 16   \* len(b.buf) of bufio.NewReader, scaled down from 4096

\* A reader over the bytes of a file is [r, w]: the bytes before offset r
\* are consumed, those before w are in the buffer (fill slides the unread
\* bytes to the front and reads once into the rest; a regular file gives
\* all it is asked for until its end).
Fill(bytes, r) == IF r + BufSize < Len(bytes) THEN r + BufSize ELSE Len(bytes)

\* the offset of the first newline among the bytes r+1..w, 0 when none is
IndexByte(bytes, r, w) ==
    IF \E j \in (r + 1)..w : bytes[j] = 10
    THEN Min({j \in (r + 1)..w : bytes[j] = 10}) ELSE 0

\* r.ReadString('\n') from offset start on: search the buffer; at a pending
\* EOF give the rest with the error; a full buffer is taken as a fragment.
RECURSIVE ReadString(_, _, _, _)
ReadStringHit(bytes, start, r, w, hit) ==
    IF hit > 0 THEN [line |-> SubSeq(bytes, start + 1, hit), e |-> nil, r |-> hit, w |-> w]
    ELSE IF w - r >= BufSize THEN ReadString(bytes, start, w, w)
    ELSE IF w = Len(bytes)
    THEN [line |-> SubSeq(bytes, start + 1, w), e |-> EOF, r |-> w, w |-> w]
    ELSE ReadString(bytes, start, r, Fill(bytes, r))

ReadString(bytes, start, r, w) == ReadStringHit(bytes, start, r, w, IndexByte(bytes, r, w))

readLineOf(x) ==
    [line |-> IF x.e # nil THEN x.line ELSE strip(x.line), e |-> x.e,
     rd |-> [r |-> x.r, w |-> x.w]]

\* readLine(r)
readLine(bytes, rd) == readLineOf(ReadString(bytes, rd.r, rd.r, rd.w))

ReadCopy(bytes, r, w, n, got) ==
    [p  |-> SubSeq(bytes, r + 1, r + got) \o Zeros(n - got),
     n  |-> got,
     e  |-> IF got = 0 THEN EOF ELSE nil,
     rd |-> [r |-> r + got, w |-> w]]

ReadBuffered(bytes, r, w, n) == ReadCopy(bytes, r, w, n, IF n < w - r THEN n ELSE w - r)

\* (*bufio.Reader).Read(p) with len(p) = n < BufSize: an empty buffer is
\* refilled by one read, then as many bytes as the buffer holds are
\* copied, at most n.  p is what make gave, zero, beyond the bytes copied.
Read(bytes, rd, n) ==
    ReadBuffered(bytes, rd.r, IF rd.r = rd.w THEN Fill(bytes, rd.r) ELSE rd.w, n)

\* b = make([]byte, w); rd.Read(b); return b, nil: the results of Read dropped
toBTypeRead(x) == [b |-> x.p, e |-> nil, rd |-> x.rd]

\* toBType(rd, typeName)
toBType(bytes, rd, typeName) ==
    IF TypeIndex(typeName) = 0 THEN [b |-> <<>>, e |-> nil, rd |-> rd]
    ELSE toBTypeRead(Read(bytes, rd, SizeOfType(typeName)))

\* io.ReadFull(r, buf) with len(buf) = need + Len(acc)
RECURSIVE ReadFull(_, _, _, _)
ReadFullStep(bytes, need, acc, x) ==
    IF x.n = 0
    THEN [buf |-> acc, e |-> IF acc = <<>> THEN EOF ELSE ErrUnexpectedEOF, rd |-> x.rd]
    ELSE ReadFull(bytes, x.rd, need - x.n, acc \o SubSeq(x.p, 1, x.n))

ReadFull(bytes, rd, need, acc) ==
    IF need = 0 THEN [buf |-> acc, e |-> nil, rd |-> rd]
    ELSE ReadFullStep(bytes, need, acc, Read(bytes, rd, need))

BigEndian == "BigEndian"
LittleEndian == "LittleEndian"

\* the value of four bytes, most significant first, saturated at the
\* largest integer of the model
Uint32BE(m) ==
    IF m[1] >= 128 THEN 2147483647
    ELSE ((m[1] * 256 + m[2]) * 256 + m[3]) * 256 + m[4]

\* order.Uint32(bs)
Uint32(order, bs) ==
    Uint32BE(IF order = BigEndian THEN bs ELSE <<bs[4], bs[3], bs[2], bs[1]>>)

binaryReadOf(x, order) ==
    IF x.e # nil THEN [num |-> 0, e |-> x.e, rd |-> x.rd]
    ELSE [num |-> Uint32(order, x.buf), e |-> nil, rd |-> x.rd]

\* binary.Read(r, p.byteOrder, &num) for num uint32
binaryReadUint32(bytes, rd, order) == binaryReadOf(ReadFull(bytes, rd, 4, <<>>), order)

\* ------------------------------------------------------------- document
BinaryBigEndian == 0
BinaryLittleEndian == 1
Ascii == 2

MaxCount == 8   \* list counts above this are not followed (see binaryCount)

VARIABLES
    p,            \* the PLY value: Elements, FileType, ObjInfoItems, currentLine, filename, byteOrder
    file,         \* the file p.reader reads: its bytes, and what they were rendered from
    rd,           \* p.reader: [r, w]
    pc,           \* where Load stands: idle, magic, format, header, dispatch, elem, row, returned, panic, cut
    currentElem,  \* parseHeader's local
    propPos,      \* parseHeader's local
    ei,           \* the body passes' position in p.Elements (1-based)
    row,          \* the body passes' i
    ret,          \* what the last Load returned
    nLoads,       \* the number of Load calls on p
    reads,        \* the indices of words the last ASCII row read, in order
    vertices,     \* what the last ReadVertices returned
    last          \* the last direct call of the value codec

vars == <<p, file, rd, pc, currentElem, propPos, ei, row, ret, nLoads, reads, vertices, last>>

none == [kind |-> "none", file |-> "", line |-> 0]

\* new(PLY)
NewPLY == [Elements |-> <<>>, FileType |-> 0, ObjInfoItems |-> {}, currentLine |-> 0,
           filename |-> "", byteOrder |-> "nil"]

NoFile == [name |-> "", exists |-> FALSE, bytes |-> <<>>, decl |-> <<>>, mode |-> Ascii,
           listLen |-> 0, cut |-> 0, finalNL |-> TRUE, rendered |-> FALSE, bodyLen |-> 0]

NoCall == [op |-> "none", typeName |-> <<>>, data |-> <<>>, b |-> <<>>, e |-> nil, r |-> 0]

Stream == [NoFile EXCEPT !.name = "stream", !.exists = TRUE]

NotCalled == [called |-> FALSE, data |-> <<>>]

Fresh ==
    /\ p = NewPLY
    /\ file = NoFile
    /\ rd = [r |-> 0, w |-> 0]
    /\ pc = "idle"
    /\ currentElem = -1
    /\ propPos = 0
    /\ ei = 1
    /\ row = 0
    /\ ret = none
    /\ nLoads = 0
    /\ reads = <<>>
    /\ vertices = NotCalled
    /\ last = NoCall

\* return e from Load
Return(e) == pc' = "returned" /\ ret' = e

\* a run-time panic (index out of range, makeslice): Load never returns
Panic == pc' = "panic" /\ ret' = none

\* go on with the next step of Load
Goto(l) == pc' = l /\ ret' = ret

\* Load, lines 91-96: open the file and wrap it in a bufio.Reader
Open(f) ==
    /\ pc \in {"idle", "returned"}
    /\ nLoads' = nLoads + 1
    /\ p' = [p EXCEPT !.filename = f.name]
    /\ file' = f
    /\ rd' = [r |-> 0, w |-> 0]
    /\ reads' = <<>>
    /\ vertices' = NotCalled
    /\ IF f.exists THEN pc' = "magic" /\ ret' = none ELSE Return(Err("open"))
    /\ UNCHANGED <<currentElem, propPos, ei, row, last>>

MagicLine(x) ==
    /\ rd' = x.rd
    /\ IF x.e # nil THEN Return(x.e) /\ p' = p
       ELSE IF x.line # s_ply
       THEN Return([kind |-> "is not a ply file.", file |-> p.filename, line |-> 0]) /\ p' = p
       ELSE Goto("format") /\ p' = [p EXCEPT !.currentLine = @ + 1]

\* parseHeader, lines 277-285: the marker line
ParseMagic ==
    /\ pc = "magic"
    /\ MagicLine(readLine(file.bytes, rd))
    /\ UNCHANGED <<file, currentElem, propPos, ei, row, nLoads, reads, vertices, last>>

IncorrectFormat(q) == [kind |-> "Incorrect format", file |-> q.filename, line |-> q.currentLine]

\* lines 302-312: the FileType of the format line's second word, -1 for the
\* default case
FileTypeOf(word) ==
    IF word = s_ascii THEN Ascii
    ELSE IF word = s_binary_big_endian THEN BinaryBigEndian
    ELSE IF word = s_binary_little_endian THEN BinaryLittleEndian
    ELSE -1

FormatWords(words, q) ==
    IF Len(words) # 3 \/ words[1] # s_format \/ FileTypeOf(words[2]) = -1
    THEN Return(IncorrectFormat(q)) /\ p' = q
    ELSE Goto("header") /\ p' = [q EXCEPT !.FileType = FileTypeOf(words[2])]

FormatLine(x) ==
    /\ rd' = x.rd
    /\ IF x.e # nil THEN Return(x.e) /\ p' = p
       ELSE FormatWords(wordMatcher(x.line), [p EXCEPT !.currentLine = @ + 1])

\* parseHeader, lines 287-314: the format line
ParseFormat ==
    /\ pc = "format"
    /\ FormatLine(readLine(file.bytes, rd))
    /\ currentElem' = -1
    /\ propPos' = 0
    /\ UNCHANGED <<file, ei, row, nLoads, reads, vertices, last>>

\* lines 326-334: the Elements after an element line
AppendElement(elems, elemName, num) ==
    Append(elems, [Name |-> elemName, Properties |-> <<>>, Size |-> num])

\* the index of the property's name among the words of a property line
NameAt(words) == IF Len(words) >= 2 /\ words[2] = s_list THEN 5 ELSE 3

\* lines 340-356: the Property of a property line; ok is FALSE when the line
\* has too few words for the indices the code uses (index out of range)
NewProperty(words, pos) ==
    IF Len(words) < NameAt(words) THEN [ok |-> FALSE]
    ELSE [ok |-> TRUE,
          prop |-> [Name |-> words[NameAt(words)], IsList |-> NameAt(words) = 5,
                    Data |-> <<>>, Type |-> words[NameAt(words) - 1],
                    ListSizeType |-> IF NameAt(words) = 5 THEN words[3] ELSE <<>>,
                    pos |-> pos]]

\* a variant of the append of lines 357-358 that indexes the first Element
\* instead of the current one
AppendPropertyFirst(elems, cur, prop) ==
    [elems EXCEPT ![1].Properties = Append(@, prop)]

\* lines 357-358: p.Elements[currentElem].Properties = append(..., prop);
\* cur is currentElem + 1, the 1-based index
AppendProperty(elems, cur, prop) ==
    [elems EXCEPT ![cur].Properties = Append(@, prop)]

\* lines 324-336
ElementLine(words, q, num) ==
    IF ~num.ok
    THEN /\ Return([kind |-> num.e.kind, file |-> q.filename, line |-> q.currentLine])
         /\ p' = q
         /\ UNCHANGED <<currentElem, propPos>>
    ELSE /\ Goto("header")
         /\ p' = [q EXCEPT !.Elements = AppendElement(@, words[2], num.n)]
         /\ currentElem' = currentElem + 1
         /\ propPos' = 0

\* lines 337-359
PropertyLine(q, np) ==
    IF ~np.ok \/ currentElem + 1 \notin 1..Len(q.Elements)
    THEN Panic /\ p' = q /\ UNCHANGED <<currentElem, propPos>>
    ELSE /\ Goto("header")
         /\ p' = [q EXCEPT !.Elements = AppendProperty(@, currentElem + 1, np.prop)]
         /\ propPos' = propPos + 1
         /\ currentElem' = currentElem

\* lines 360-364
ObjInfoLine(words, q) ==
    /\ Goto("header")
    /\ p' = [q EXCEPT !.ObjInfoItems =
                {kv \in @ : kv[1] # words[2]} \cup {<<words[2], words[3]>>}]
    /\ UNCHANGED <<currentElem, propPos>>

\* lines 321-367: the dispatch on the first word
HeaderWords(words, q) ==
    IF words = <<>> THEN Panic /\ p' = q /\ UNCHANGED <<currentElem, propPos>>
    ELSE IF words[1] = s_comment THEN Goto("header") /\ p' = q /\ UNCHANGED <<currentElem, propPos>>
    ELSE IF words[1] \in {s_element, s_obj_info} /\ Len(words) < 3
    THEN Panic /\ p' = q /\ UNCHANGED <<currentElem, propPos>>
    ELSE IF words[1] = s_element THEN ElementLine(words, q, ParseInt(words[3], 0, 32))
    ELSE IF words[1] = s_property THEN PropertyLine(q, NewProperty(words, propPos))
    ELSE IF words[1] = s_obj_info THEN ObjInfoLine(words, q)
    ELSE IF words[1] = s_end_header
    THEN Goto("dispatch") /\ p' = q /\ UNCHANGED <<currentElem, propPos>>
    ELSE Goto("header") /\ p' = q /\ UNCHANGED <<currentElem, propPos>>

HeaderLine(x) ==
    /\ rd' = x.rd
    /\ IF x.e # nil THEN Return(x.e) /\ p' = p /\ UNCHANGED <<currentElem, propPos>>
       ELSE HeaderWords(wordMatcher(x.line), [p EXCEPT !.currentLine = @ + 1])

\* parseHeader, lines 315-368: one turn of the loop
ParseHeaderLine ==
    /\ pc = "header"
    /\ HeaderLine(readLine(file.bytes, rd))
    /\ UNCHANGED <<file, ei, row, nLoads, reads, vertices, last>>

\* Load, lines 101-110, and the first line of the pass chosen
Dispatch ==
    /\ pc = "dispatch"
    /\ p' = [p EXCEPT !.byteOrder = IF p.FileType = BinaryBigEndian THEN BigEndian
                                    ELSE LittleEndian]
    /\ ei' = 1
    /\ pc' = "elem"
    /\ UNCHANGED <<file, rd, currentElem, propPos, row, ret, nLoads, reads, vertices, last>>

\* lines 429-432 and 482-484: prop.Data = make([][]byte, elem.Size)
MakeData(elem) ==
    [elem EXCEPT !.Properties =
        [j \in 1..Len(@) |-> [@[j] EXCEPT !.Data = [i \in 1..elem.Size |-> <<>>]]]]

\* parseBinary / parseASCII: the head of the loop over p.Elements
NextElement ==
    /\ pc = "elem"
    /\ IF ei > Len(p.Elements)
       THEN Return(nil) /\ p' = p /\ row' = row
       ELSE /\ Goto("row")
            /\ p' = [p EXCEPT !.Elements[ei] = MakeData(@)]
            /\ row' = 0
    /\ UNCHANGED <<file, rd, currentElem, propPos, ei, nLoads, reads, vertices, last>>

\* the head of the loop over the rows of an element
EndOfRows ==
    /\ pc = "row"
    /\ row >= p.Elements[ei].Size
    /\ ei' = ei + 1
    /\ pc' = "elem"
    /\ UNCHANGED <<p, file, rd, currentElem, propPos, row, ret, nLoads, reads, vertices, last>>

\* ------------------------------------------------------------ body passes
\* lines 443-449: the loop over the elements of a binary list
RECURSIVE binaryList(_, _, _, _, _)
binaryListNext(bytes, typeName, left, l, t) ==
    binaryList(bytes, t.rd, typeName, left - 1, appendBytes(l, t.b))

binaryList(bytes, r, typeName, left, l) ==
    IF left = 0 THEN [l |-> l, rd |-> r]
    ELSE binaryListNext(bytes, typeName, left, l, toBType(bytes, r, typeName))

\* lines 434-458: the properties of row i from the j-th on.  st is "ok",
\* "err" (return e) or "cut" (a list count above MaxCount).
RECURSIVE binaryProps(_, _, _, _, _, _)
\* lines 450 and 456: prop.Data[i] = b, and on to the next property
binaryStore(bytes, order, props, i, j, b, r) ==
    binaryProps(bytes, r, order, [props EXCEPT ![j].Data[i + 1] = b], i, j + 1)

binaryListDone(bytes, order, props, i, j, lst) ==
    binaryStore(bytes, order, props, i, j, lst.l, lst.rd)

\* lines 436-449
binaryCount(bytes, order, props, i, j, c) ==
    IF c.e # nil THEN [st |-> "err", e |-> c.e, props |-> props, rd |-> c.rd]
    ELSE IF c.num > MaxCount THEN [st |-> "cut", e |-> nil, props |-> props, rd |-> c.rd]
    ELSE binaryListDone(bytes, order, props, i, j,
                        binaryList(bytes, c.rd, props[j].Type, c.num,
                                   Zeros(c.num * SizeOfType(props[j].Type))))

\* lines 452-456
binaryScalar(bytes, order, props, i, j, t) ==
    binaryStore(bytes, order, props, i, j, t.b, t.rd)

binaryProps(bytes, r, order, props, i, j) ==
    IF j > Len(props) THEN [st |-> "ok", e |-> nil, props |-> props, rd |-> r]
    ELSE IF props[j].IsList
    THEN binaryCount(bytes, order, props, i, j, binaryReadUint32(bytes, r, order))
    ELSE binaryScalar(bytes, order, props, i, j, toBType(bytes, r, props[j].Type))

BinaryRowDone(x) ==
    /\ p' = [p EXCEPT !.Elements[ei].Properties = x.props]
    /\ rd' = x.rd
    /\ IF x.st = "err" THEN Return(x.e) /\ row' = row
       ELSE IF x.st = "cut" THEN Goto("cut") /\ row' = row
       ELSE Goto("row") /\ row' = row + 1

\* parseBinary, lines 433-459: one row
ParseBinaryRow ==
    /\ pc = "row"
    /\ p.FileType # Ascii
    /\ row < p.Elements[ei].Size
    /\ BinaryRowDone(binaryProps(file.bytes, rd, p.byteOrder, p.Elements[ei].Properties, row, 1))
    /\ UNCHANGED <<file, currentElem, propPos, ei, nLoads, reads, vertices, last>>

\* lines 504-511: the loop over the elements of an ASCII list; currWord is
\* the source's 0-based index, so the word it names is words[currWord + 1]
RECURSIVE asciiList(_, _, _, _, _, _)
asciiListNext(words, typeName, left, currWord, l, rds, t) ==
    IF t.e # nil
    THEN [st |-> "err", e |-> t.e, l |-> l, currWord |-> currWord, reads |-> rds]
    ELSE asciiList(words, typeName, left - 1, currWord + 1, appendBytes(l, t.b), rds)

asciiList(words, typeName, left, currWord, l, rds) ==
    IF left = 0 THEN [st |-> "ok", e |-> nil, l |-> l, currWord |-> currWord, reads |-> rds]
    ELSE IF currWord + 1 > Len(words)
    THEN [st |-> "panic", e |-> nil, l |-> l, currWord |-> currWord, reads |-> rds]
    ELSE asciiListNext(words, typeName, left, currWord, l, Append(rds, currWord + 1),
                       toType(words[currWord + 1], typeName))

\* lines 495-522: the properties of row i from the j-th on.  st is "ok",
\* "err" (return e) or "panic" (an index past the words, a negative make).
RECURSIVE asciiProps(_, _, _, _, _, _)
\* lines 512 and 520: prop.Data[i] = b, and on to the next property with
\* currWord as the branch left it
asciiStore(words, props, i, j, b, currWord, rds) ==
    asciiProps(words, [props EXCEPT ![j].Data[i + 1] = b], i, j + 1, currWord, rds)

asciiListDone(words, props, i, j, lst) ==
    IF lst.st # "ok" THEN [st |-> lst.st, e |-> lst.e, props |-> props, reads |-> lst.reads]
    ELSE asciiStore(words, props, i, j, lst.l, lst.currWord, lst.reads)

\* lines 497-511
asciiCount(words, props, i, j, currWord, rds, c) ==
    IF ~c.ok THEN [st |-> "err", e |-> c.e, props |-> props, reads |-> rds]
    ELSE IF c.n < 0 THEN [st |-> "panic", e |-> nil, props |-> props, reads |-> rds]
    ELSE asciiListDone(words, props, i, j,
                       asciiList(words, props[j].Type, c.n, currWord + 1,
                                 Zeros(c.n * SizeOfType(props[j].Type)), rds))

\* lines 514-520: the scalar branch leaves currWord as it was
asciiScalar(words, props, i, j, currWord, rds, t) ==
    IF t.e # nil THEN [st |-> "err", e |-> t.e, props |-> props, reads |-> rds]
    ELSE asciiStore(words, props, i, j, t.b, currWord, rds)

asciiWord(words, props, i, j, currWord, rds) ==
    IF props[j].IsList
    THEN asciiCount(words, props, i, j, currWord, rds, ParseInt(words[currWord + 1], 10, 32))
    ELSE asciiScalar(words, props, i, j, currWord, rds, toType(words[currWord + 1], props[j].Type))

asciiProps(words, props, i, j, currWord, rds) ==
    IF j > Len(props) THEN [st |-> "ok", e |-> nil, props |-> props, reads |-> rds]
    ELSE IF currWord + 1 > Len(words)
    THEN [st |-> "panic", e |-> nil, props |-> props, reads |-> rds]
    ELSE asciiWord(words, props, i, j, currWord, Append(rds, currWord + 1))

ASCIIRowDone(x) ==
    /\ p' = [p EXCEPT !.Elements[ei].Properties = x.props]
    /\ reads' = x.reads
    /\ IF x.st = "err" THEN Return(x.e) /\ row' = row
       ELSE IF x.st = "panic" THEN Panic /\ row' = row
       ELSE Goto("row") /\ row' = row + 1

\* lines 490-523
ASCIIWords(words) ==
    IF words = <<>>
    THEN Goto("row") /\ p' = p /\ row' = row + 1 /\ reads' = <<>>
    ELSE ASCIIRowDone(asciiProps(words, p.Elements[ei].Properties, row, 1, 0, <<>>))

ASCIILine(ln) ==
    /\ rd' = ln.rd
    /\ IF ln.e # nil THEN Return(ln.e) /\ p' = p /\ row' = row /\ reads' = <<>>
       ELSE ASCIIWords(numMatcher(ln.line))

\* parseASCII, lines 485-524: one row
ParseASCIIRow ==
    /\ pc = "row"
    /\ p.FileType = Ascii
    /\ row < p.Elements[ei].Size
    /\ ASCIILine(readLine(file.bytes, rd))
    /\ UNCHANGED <<file, currentElem, propPos, ei, nLoads, vertices, last>>

\* ------------------------------------------------------------- accessors
\* binary.Read(bytes.NewBuffer(v), order, &f) into a float32 that is 0: the
\* bits of f afterwards, most significant byte first; a buffer shorter
\* than 4 bytes is an error (dropped) that leaves f as it was
readFloat32(v, order) ==
    IF Len(v) < 4 THEN <<0, 0, 0, 0>>
    ELSE IF order = BigEndian THEN SubSeq(v, 1, 4)
    ELSE <<v[4], v[3], v[2], v[1]>>

\* lines 144-152: the index of the first element named vertex, 0 when
\* there is none
vertexIndex(elems) ==
    IF \E k \in 1..Len(elems) : elems[k].Name = s_vertex
    THEN Min({k \in 1..Len(elems) : elems[k].Name = s_vertex}) ELSE 0

\* lines 154-166
vertexData(elem, order) ==
    [j \in 1..3 |->
        [i \in 1..elem.Size |->
            IF i <= Len(elem.Properties[j].Data)
            THEN readFloat32(elem.Properties[j].Data[i], order)
            ELSE <<0, 0, 0, 0>>]]

VerticesOf(k) ==
    IF k = 0 THEN vertices' = [called |-> TRUE, data |-> <<>>] /\ pc' = pc
    ELSE IF Len(p.Elements[k].Properties) < 3 THEN vertices' = vertices /\ pc' = "panic"
    ELSE /\ vertices' = [called |-> TRUE, data |-> vertexData(p.Elements[k], p.byteOrder)]
         /\ pc' = pc

\* ReadVertices, lines 143-169
ReadVertices ==
    /\ pc = "returned"
    /\ ~vertices.called
    /\ VerticesOf(vertexIndex(p.Elements))
    /\ UNCHANGED <<p, file, rd, currentElem, propPos, ei, row, ret, nLoads, reads, last>>

\* ------------------------------------------------------------ value codec
DecodedText(data, typeName, t) ==
    last' = [op |-> "toType", typeName |-> typeName, data |-> data, b |-> t.b, e |-> t.e, r |-> 0]

\* toType(data, typeName) called on its own
DecodeText(data, typeName) ==
    /\ pc = "codec"
    /\ last.op = "none"
    /\ DecodedText(data, typeName, toType(data, typeName))
    /\ UNCHANGED <<p, file, rd, pc, currentElem, propPos, ei, row, ret, nLoads, reads, vertices>>

DecodedBinary(typeName, t) ==
    /\ last' = [op |-> "toBType", typeName |-> typeName, data |-> <<>>, b |-> t.b, e |-> t.e,
                r |-> rd.r]
    /\ rd' = t.rd

\* toBType(rd, typeName) called on its own, on a reader with bytes left
DecodeBinary(typeName) ==
    /\ pc = "codec"
    /\ last.op # "toType"
    /\ rd.r < Len(file.bytes)
    /\ DecodedBinary(typeName, toBType(file.bytes, rd, typeName))
    /\ UNCHANGED <<p, file, pc, currentElem, propPos, ei, row, ret, nLoads, reads, vertices>>

\* ---------------------------------------------------------------- inputs
MaxHdrLines == 3    \* declaration lines between the format line and end_header
MaxListLen == 3     \* elements of a list row
MaxCut == 1         \* bytes missing at the end of a truncated binary body
MaxLoads == 2       \* Load calls on one Document
MaxValue == 5       \* magnitude of the numerals given to toType
StreamLen == 40     \* bytes of the stream given to toBType

\* A declaration line of a header.  Property lines are named in turn after
\* the source's Properties, by their position in their element.
Line(kind, name, size, isList, type, ltype) ==
    [kind |-> kind, name |-> name, size |-> size, isList |-> isList, type |-> type,
     ltype |-> ltype]

CommentLine == Line("comment", <<>>, 0, FALSE, <<>>, <<>>)
ObjInfo == Line("obj_info", <<>>, 0, FALSE, <<>>, <<>>)
ElementOf(name, size) == Line("element", name, size, FALSE, <<>>, <<>>)
Scalar(type) == Line("property", <<>>, 0, FALSE, type, <<>>)
ListOf(ltype, type) == Line("property", <<>>, 0, TRUE, type, ltype)

LineChoices ==
    { CommentLine, ObjInfo, ElementOf(s_vertex, 1), ElementOf(s_face, 2), ElementOf(s_vertex, 0),
      Scalar(s_float32), ListOf(s_uchar, s_int) }

\* the last element line among the first k lines, 0 when there is none
LastElement(decl, k) == Max({0} \cup {m \in 1..k : decl[m].kind = "element"})

\* The number of property lines among the first k that follow the last
\* element line among them.
PropsSince(decl, k) ==
    Cardinality({m \in (LastElement(decl, k) + 1)..k : decl[m].kind = "property"})

Named(decl) ==
    [k \in 1..Len(decl) |->
        IF decl[k].kind = "property"
        THEN [decl[k] EXCEPT !.name = Properties[PropsSince(decl, k)]]
        ELSE decl[k]]

\* every property line comes after some element line
WellFormed(decl) ==
    \A k \in 1..Len(decl) : decl[k].kind = "property" => LastElement(decl, k) > 0

\* The schema a header declares: its elements in order, each with the
\* property lines that follow it up to the next element line.
RECURSIVE Declared(_)
DeclaredWith(before, l) ==
    IF l.kind = "element"
    THEN Append(before, [Name |-> l.name, Size |-> l.size, Properties |-> <<>>])
    ELSE IF l.kind = "property" /\ before # <<>>
    THEN [before EXCEPT ![Len(before)].Properties =
             Append(@, [Name |-> l.name, IsList |-> l.isList, Type |-> l.type,
                        ListSizeType |-> l.ltype])]
    ELSE before

Declared(decl) ==
    IF decl = <<>> THEN <<>>
    ELSE DeclaredWith(Declared(SubSeq(decl, 1, Len(decl) - 1)), decl[Len(decl)])

RECURSIVE Digits(_)
Digits(n) == IF n < 10 THEN <<48 + n>> ELSE Digits(n \div 10) \o <<48 + (n % 10)>>

RECURSIVE Concat(_)
Concat(ss) == IF ss = <<>> THEN <<>> ELSE Head(ss) \o Concat(Tail(ss))

Reverse(s) == [i \in 1..Len(s) |-> s[Len(s) + 1 - i]]

LineText(l) ==
    IF l.kind = "comment" THEN s_comment \o SP \o s_made \o SP \o s_by
    ELSE IF l.kind = "obj_info" THEN s_obj_info \o SP \o s_made \o SP \o s_by
    ELSE IF l.kind = "element" THEN s_element \o SP \o l.name \o SP \o Digits(l.size)
    ELSE IF l.isList
    THEN s_property \o SP \o s_list \o SP \o l.ltype \o SP \o l.type \o SP \o l.name
    ELSE s_property \o SP \o l.type \o SP \o l.name

ModeWord(mode) ==
    IF mode = Ascii THEN s_ascii
    ELSE IF mode = BinaryBigEndian THEN s_binary_big_endian
    ELSE s_binary_little_endian

HeaderText(decl, mode) ==
    s_ply \o NL \o s_format \o SP \o ModeWord(mode) \o SP \o s_1_0 \o NL
    \o Concat([k \in 1..Len(decl) |-> LineText(decl[k]) \o NL])
    \o s_end_header \o NL

\* The values of a body: the j-th scalar of row i (0-based) is 3i + j, the
\* k-th element of a list there 3i + j + k.
ScalarValue(i, j) == 3 * i + j
ListValue(i, j, k) == 3 * i + j + k

\* the numeral of a value of a type: "v" for the integers, "v.0" for the floats
Numeral(v, typeName) ==
    IF TypeIndex(typeName) \in 7..8 THEN Digits(v) \o <<46, 48>> ELSE Digits(v)

\* the little-endian bytes of a value v >= 0 of the type of index k
LEValueOf(v, k) ==
    IF k = 0 THEN <<>>
    ELSE IF k \in 1..6 THEN LEInt(v, WidthOfIndex[k])
    ELSE IF k = 7 THEN LEFloat32(FALSE, 2 * v)
    ELSE LEFloat64(FALSE, 2 * v)

LEValue(v, typeName) == LEValueOf(v, TypeIndex(typeName))

\* the bytes of a value of a type in a binary body of the given mode
FieldBytes(v, typeName, mode) ==
    IF mode = BinaryBigEndian THEN Reverse(LEValue(v, typeName)) ELSE LEValue(v, typeName)

\* the text of a property of row i in an ASCII body: its tokens, each
\* followed by a space
PropText(prop, i, j, n) ==
    IF prop.IsList
    THEN Digits(n) \o SP \o Concat([k \in 1..n |-> Numeral(ListValue(i, j, k), prop.Type) \o SP])
    ELSE Numeral(ScalarValue(i, j), prop.Type) \o SP

\* the bytes of a property of row i in a binary body: a list is its count
\* as a 4-byte unsigned integer, then its elements
PropBytes(prop, i, j, n, mode) ==
    IF prop.IsList
    THEN FieldBytes(n, s_uint32, mode)
         \o Concat([k \in 1..n |-> FieldBytes(ListValue(i, j, k), prop.Type, mode)])
    ELSE FieldBytes(ScalarValue(i, j), prop.Type, mode)

RowText(elem, i, n) ==
    strip(Concat([j \in 1..Len(elem.Properties) |-> PropText(elem.Properties[j], i, j, n)]))
    \o NL

RowBytes(elem, i, n, mode) ==
    Concat([j \in 1..Len(elem.Properties) |-> PropBytes(elem.Properties[j], i, j, n, mode)])

BodyBytes(schema, n, mode) ==
    Concat([e \in 1..Len(schema) |->
        Concat([i \in 1..schema[e].Size |->
            IF mode = Ascii THEN RowText(schema[e], i - 1, n)
            ELSE RowBytes(schema[e], i - 1, n, mode)])])

HasList(decl) == \E k \in 1..Len(decl) : decl[k].kind = "property" /\ decl[k].isList

FileOf(name, decl, mode, n, cut, finalNL, all, body) ==
    [name |-> name, exists |-> TRUE,
     bytes |-> SubSeq(all, 1, Len(all) - (IF finalNL THEN cut ELSE 1)),
     decl |-> decl, mode |-> mode, listLen |-> n, cut |-> cut, finalNL |-> finalNL,
     rendered |-> TRUE, bodyLen |-> Len(body)]

Rendered(name, decl, mode, n, cut, finalNL, body) ==
    FileOf(name, decl, mode, n, cut, finalNL, HeaderText(decl, mode) \o body, body)

RenderNamed(name, decl, mode, n, cut, finalNL) ==
    Rendered(name, decl, mode, n, cut, finalNL, BodyBytes(Declared(decl), n, mode))

\* The file rendered from a header, a mode and a list length, with cut
\* bytes missing at its end, or (finalNL = FALSE) without the newline that
\* ends its last line.
Render(name, d, mode, n, cut, finalNL) == RenderNamed(name, Named(d), mode, n, cut, finalNL)

RECURSIVE SeqsUpTo(_, _)
SeqsUpTo(S, n) ==
    IF n = 0 THEN {<<>>}
    ELSE SeqsUpTo(S, n - 1) \cup {Append(q, x) : q \in SeqsUpTo(S, n - 1), x \in S}

Headers == SeqsUpTo(LineChoices, MaxHdrLines)

\* vertex with x, y, z
VertexXYZ ==
    <<ElementOf(s_vertex, 1), Scalar(s_float32), Scalar(s_float32), Scalar(s_float32)>>

\* two elements with properties each, a comment and an obj_info between them
TwoElements ==
    <<ElementOf(s_vertex, 1), Scalar(s_float32), CommentLine, ElementOf(s_face, 2), ObjInfo,
      Scalar(s_uchar), ListOf(s_uchar, s_int)>>

ListOnly == <<ElementOf(s_face, 1), ListOf(s_uchar, s_int)>>

ListLens(d) == IF HasList(d) THEN 0..MaxListLen ELSE {0}

\* the files of a header in the three modes: whole, and for the binary
\* modes with the last bytes of a body missing, for ASCII without the
\* final newline
Variants(d, n) ==
    {Render("a.ply", d, Ascii, n, 0, nl) : nl \in BOOLEAN}
    \cup {f \in {Render("a.ply", d, m, n, c, TRUE) :
                    m \in {BinaryBigEndian, BinaryLittleEndian}, c \in 0..MaxCut} :
             f.cut <= f.bodyLen}

Documents ==
    UNION { UNION {Variants(d, n) : n \in ListLens(d)}
            : d \in Headers \cup {VertexXYZ, TwoElements} }

\* a file given by its bytes
Raw(name, bytes) == [NoFile EXCEPT !.name = name, !.exists = TRUE, !.bytes = bytes]

FormatAscii == s_ply \o NL \o s_format \o SP \o s_ascii \o SP \o s_1_0 \o NL

Defective ==
    { [NoFile EXCEPT !.name = "missing.ply"],
      Raw("empty.ply", <<>>),
      Raw("plx.ply", s_plx),
      Raw("plxnl.ply", s_plx \o NL \o s_format \o SP \o s_ascii \o SP \o s_1_0 \o NL
                       \o s_element \o SP \o s_vertex \o SP \o <<49>> \o NL
                       \o s_end_header \o NL \o NL),
      Raw("format2.ply", s_ply \o NL \o s_format \o SP \o s_ascii \o NL),
      Raw("format3.ply", s_ply \o NL \o s_format \o SP \o s_plx \o SP \o s_1_0 \o NL),
      Raw("blankhdr.ply", FormatAscii \o NL),
      Raw("count.ply", FormatAscii \o s_element \o SP \o s_vertex \o SP \o s_1_0 \o NL),
      Raw("blankrow.ply", HeaderText(Named(VertexXYZ), Ascii) \o NL),
      Raw("shortrow.ply", HeaderText(Named(ListOnly), Ascii) \o <<51, 32, 49, 10>>),
      Raw("badrow.ply", HeaderText(Named(VertexXYZ), Ascii) \o <<49, 46, 46, 48, 10>>) }

Inputs == Documents \cup Defective

\* the numerals given to toType: v, -v, +v, v.0, v.5, -v.0, ... and two
\* that are out of the range of the narrow types
Sign(sg) == IF sg = 0 THEN <<>> ELSE <<sg>>
Numerals ==
    {Sign(sg) \o Digits(v) \o fr :
        sg \in {0, 43, 45}, v \in 0..MaxValue, fr \in {<<>>, <<46, 48>>, <<46, 53>>}}
    \cup {Digits(300), Digits(70000), <<45>> \o Digits(129), <<49, 46, 46, 48>>}

TypeNames == {Types[k] : k \in 1..9} \cup {OldTypes[k] : k \in 1..9}

\* the bytes given to toBType: 1, 2, 3, ...
StreamBytes == [i \in 1..StreamLen |-> i]

\* the documents given to a Document that is loaded more than once
ReloadInputs ==
    { Render("a.ply", <<ElementOf(s_vertex, 0)>>, Ascii, 0, 0, TRUE),
      Render("b.ply", VertexXYZ, Ascii, 0, 0, TRUE),
      Render("c.ply", ListOnly, BinaryLittleEndian, 1, 0, TRUE),
      Render("d.ply", <<ElementOf(s_vertex, 1), Scalar(s_float32)>>, BinaryBigEndian, 0, 1, TRUE),
      Raw("plx.ply", s_plx \o NL),
      Raw("count.ply", FormatAscii \o s_element \o SP \o s_vertex \o SP \o s_1_0 \o NL) }

\* ------------------------------------------------------- specifications
Init == Fresh

\* Load on the Document as constructed
Load == nLoads = 0 /\ \E f \in Inputs : Open(f)

\* Load on a Document, loaded before or not
Reload == nLoads < MaxLoads /\ \E f \in ReloadInputs : Open(f)

Steps ==
    \/ ParseMagic
    \/ ParseFormat
    \/ ParseHeaderLine
    \/ Dispatch
    \/ NextElement
    \/ EndOfRows
    \/ ParseBinaryRow
    \/ ParseASCIIRow
    \/ ReadVertices

Next == Load \/ Steps

\* a Document loaded once
Spec == Init /\ [][Next]_vars

NextReload == Reload \/ Steps

\* a Document loaded up to MaxLoads times
SpecReload == Init /\ [][NextReload]_vars

InitCodec ==
    /\ p = NewPLY
    /\ file = [Stream EXCEPT !.bytes = StreamBytes]
    /\ rd = [r |-> 0, w |-> 0]
    /\ pc = "codec"
    /\ currentElem = -1
    /\ propPos = 0
    /\ ei = 1
    /\ row = 0
    /\ ret = none
    /\ nLoads = 0
    /\ reads = <<>>
    /\ vertices = NotCalled
    /\ last = NoCall

NextCodec ==
    \/ \E data \in Numerals, typeName \in TypeNames : DecodeText(data, typeName)
    \/ \E typeName \in TypeNames : DecodeBinary(typeName)

\* the value codec on its own: toType on numerals, or toBType again and
\* again on a reader
SpecCodec == InitCodec /\ [][NextCodec]_vars

\* ---------------------------------------------------------------- claims
\* the schema of a Document: its elements and their properties without the
\* row buffers
Schema(elems) ==
    [k \in 1..Len(elems) |->
        [Name |-> elems[k].Name, Size |-> elems[k].Size,
         Properties |->
            [j \in 1..Len(elems[k].Properties) |->
                [Name |-> elems[k].Properties[j].Name,
                 IsList |-> elems[k].Properties[j].IsList,
                 Type |-> elems[k].Properties[j].Type,
                 ListSizeType |-> elems[k].Properties[j].ListSizeType]]]]

\* parseHeader has returned nil in the current Load
HeaderParsed == pc \in {"dispatch", "elem", "row", "cut"} \/ (pc = "returned" /\ p.byteOrder # "nil")

\* the file is a whole document: rendered from a header whose property
\* lines all follow an element line, nothing missing
Whole == file.rendered /\ WellFormed(file.decl) /\ file.cut = 0 /\ file.finalNL

\* the element of the schema is three float32 scalars
XYZ(elem) ==
    /\ Len(elem.Properties) = 3
    /\ \A j \in 1..3 : ~elem.Properties[j].IsList /\ elem.Properties[j].Type = s_float32

\* the columns of the values of the rows of the body, as the bits of singles
Columns(elem) ==
    [j \in 1..3 |-> [i \in 1..elem.Size |-> Reverse(LEFloat32(FALSE, 2 * ScalarValue(i - 1, j)))]]

VertexDeclared(schema) == vertexIndex(schema) > 0 /\ XYZ(schema[vertexIndex(schema)])

\* C1: an ASCII document that declares vertex with float32 x, y, z and has
\* one line of three numerals per row loads, and ReadVertices returns
\* three columns of Element.Size values, the i-th of column j being the value
\* of the j-th token of row i.
C1_VertexColumns ==
    (Whole /\ file.mode = Ascii /\ VertexDeclared(Declared(file.decl)) /\ pc = "returned")
    => /\ ret = nil
       /\ vertices.called =>
            vertices.data = Columns(Declared(file.decl)[vertexIndex(Declared(file.decl))])

\* the row buffer of a list of n elements as the claim has it: the bytes of
\* the elements, in order
ListBuffer(prop, i, j, n, mode) ==
    Concat([k \in 1..n |->
        FieldBytes(ListValue(i, j, k), prop.Type,
                   IF mode = Ascii THEN BinaryLittleEndian ELSE mode)])

\* C2: in both passes the row buffer of a list property whose row has the
\* count n is n * width bytes long, the n decoded elements in stream order
\* with no prefix or padding.
C2_ListRowBuffer ==
    (Whole /\ pc = "returned" /\ ret = nil)
    => \A e \in 1..Len(p.Elements) : \A j \in 1..Len(p.Elements[e].Properties) :
         \A i \in 1..p.Elements[e].Size :
            p.Elements[e].Properties[j].IsList
            => /\ Len(p.Elements[e].Properties[j].Data[i])
                    = file.listLen * SizeOfType(p.Elements[e].Properties[j].Type)
               /\ p.Elements[e].Properties[j].Data[i]
                    = ListBuffer(p.Elements[e].Properties[j], i - 1, j, file.listLen, file.mode)

\* C3: Load of a binary document whose body is shorter than its schema
\* implies returns an error.
C3_TruncatedBinaryFails ==
    (file.rendered /\ WellFormed(file.decl) /\ file.mode # Ascii /\ file.cut > 0
     /\ pc = "returned")
    => ret # nil

\* the value of a numeral: its sign and twice its magnitude
NumeralValue(data) == ParseFloat(data, 64)

\* the little-endian bytes of the value of a numeral in the type of index k
Encoding(k, data) ==
    IF k \in 1..6
    THEN LEInt(IF NumeralValue(data).neg THEN 0 - (NumeralValue(data).h \div 2)
               ELSE NumeralValue(data).h \div 2, WidthOfIndex[k])
    ELSE IF k = 7 THEN LEFloat32(NumeralValue(data).neg, NumeralValue(data).h)
    ELSE LEFloat64(NumeralValue(data).neg, NumeralValue(data).h)

\* C4: toType of a numeral that parses in range for one of the 8 types
\* returns width(type) bytes, the little-endian encoding of its value.
C4_DecodeText ==
    (last.op = "toType" /\ TypeIndex(last.typeName) # 0 /\ last.e = nil)
    => /\ Len(last.b) = SizeOfType(last.typeName)
       /\ last.b = Encoding(TypeIndex(last.typeName), last.data)

\* C5: toBType on the reader Load uses takes exactly width(type) bytes of
\* the stream and returns exactly those bytes, at every offset.
C5_DecodeBinary ==
    (last.op = "toBType" /\ TypeIndex(last.typeName) # 0
     /\ last.r + SizeOfType(last.typeName) <= Len(file.bytes))
    => /\ rd.r = last.r + SizeOfType(last.typeName)
       /\ last.b = SubSeq(file.bytes, last.r + 1, last.r + SizeOfType(last.typeName))

\* C6: after parseHeader on a well-formed header the Elements are the
\* element lines in order with their names and sizes, each with the
\* property lines that follow it, in order, with name, type, isList and
\* list count type; comment and obj_info lines add nothing.
C6_HeaderSchema ==
    (file.rendered /\ WellFormed(file.decl) /\ HeaderParsed)
    => Schema(p.Elements) = Declared(file.decl)

C6_Witness ==
    /\ pc = "dispatch"
    /\ file.decl = Named(TwoElements)
    /\ Len(p.Elements) = 2
    /\ Len(p.Elements[2].Properties) = 2

\* the first line of a file: its bytes up to the first newline
FirstLine(bytes) ==
    SubSeq(bytes, 1, Min({j \in 1..(Len(bytes) + 1) : j > Len(bytes) \/ bytes[j] = 10}) - 1)

\* C7: Load of a file whose first line is not ply fails with the format
\* error that names the file, and adds no Element.
C7_NotPly ==
    (pc = "returned" /\ file.exists /\ file.bytes # <<>>
     /\ strip(FirstLine(file.bytes)) # s_ply)
    => /\ ret = [kind |-> "is not a ply file.", file |-> file.name, line |-> 0]
       /\ p.Elements = <<>>

\* C8: the ASCII pass reads the tokens of a row left to right, each once:
\* the words it reads are the 1st, the 2nd, the 3rd, ...
C8_TokensInOrder == \A k \in 1..Len(reads) : reads[k] = k

\* C9: when a Load on a Document that may have been loaded before returns
\* nil, the Elements are those the header of that file declares.
C9_ReloadSchema ==
    (pc = "returned" /\ ret = nil /\ file.rendered)
    => Schema(p.Elements) = Declared(file.decl)

\* C10: Load of a complete ASCII document succeeds whether or not its last
\* line ends with a newline.
C10_NoFinalNewline ==
    (file.rendered /\ WellFormed(file.decl) /\ file.mode = Ascii /\ file.cut = 0
     /\ ~file.finalNL /\ pc = "returned")
    => ret = nil

====
